---- MODULE Spec2Model ----
(***************************************************************************)
(* Patient Management System API (src/main.py).                            *)
(*                                                                         *)
(* Units.  The source keeps height (metres), weight (kilograms) and bmi as *)
(* floats.  Here height is held in centimetres, weight in kilograms and    *)
(* bmi in hundredths, all integers: height 150 is 1.50 m, bmi 2222 is      *)
(* 22.22.  The heights used (1.5 m, 2.0 m) are exact binary floats and no  *)
(* quotient weight/height^2 of the value sets is a rounding tie, so the    *)
(* integer arithmetic below agrees with the float arithmetic of the source *)
(* on every input the model draws.                                         *)
(*                                                                         *)
(* A Python dict is a sequence of entries [id, rec] without repeated ids   *)
(* (dicts keep insertion order, and json keeps it through the file).       *)
(* A stored record is a TLA+ record, i.e. a function from key strings.     *)
(***************************************************************************)
EXTENDS Integers, Sequences, FiniteSets, TLC

VARIABLES
    file,   \* patients.json: [state, content]
    resp,   \* the last response sent, with the request that caused it
    pc,     \* per worker thread: "idle", "loaded" or "writing"
    req,    \* per worker thread: the request being served
    data,   \* per worker thread: the local variable data of the handler
    out,    \* per worker thread: the handler's result, kept while save_data runs
    obs,    \* per worker thread: what its load_data call read, and the saves then running
    hist,   \* the requests answered so far, in the order of their responses
    started,    \* the number of requests accepted so far by the worker threads
    overlapped  \* whether a request was ever accepted while another was being served

vars == <<file, resp, pc, req, data, out, obs, hist, started, overlapped>>

(***************************************************************************)
(* Value sets and bounds                                                   *)
(***************************************************************************)
Ids == {"P1", "P2"}

\* The most fields one update payload of the sequential specification sets.
MaxFieldsSet == 2
\* The most requests the worker threads of the concurrent specification accept.
MaxRequests == 3
\* The longest collection the sort specification starts from.
MaxSortLen == 3

Threads == {"t1", "t2"}

(***************************************************************************)
(* Python dict operations on a sequence of entries                         *)
(***************************************************************************)
Keys(d) == {d[i].id : i \in DOMAIN d}

Get(d, id) == d[CHOOSE i \in DOMAIN d : d[i].id = id].rec

Put(d, id, rec) ==
    IF id \in Keys(d)
    THEN [i \in DOMAIN d |-> IF d[i].id = id THEN [id |-> id, rec |-> rec] ELSE d[i]]
    ELSE Append(d, [id |-> id, rec |-> rec])

Del(d, id) == SelectSeq(d, LAMBDA e : e.id # id)

Values(d) == [i \in DOMAIN d |-> d[i].rec]

(***************************************************************************)
(* Record Model: class Patient                                             *)
(***************************************************************************)
Genders == {"male", "female", "others"}

AgeGt == 0
AgeLt == 120

Required == {"id", "name", "city", "age", "gender", "height", "weight"}

\* round(n / d, 0) for integers n >= 0, d > 0, ties to the even neighbour.
RoundHalfEven(n, d) ==
    LET q == n \div d
        r == n % d
    IN  IF 2 * r < d THEN q
        ELSE IF 2 * r > d THEN q + 1
        ELSE IF q % 2 = 0 THEN q ELSE q + 1

\* Patient.bmi, in hundredths: round(weight / height ** 2, 2) with height in cm.
bmi(height, weight) == RoundHalfEven(weight * 10000 * 100, height * height)

\* Patient.verdict on a bmi in hundredths.
verdict(b) ==
    IF b < 1850 THEN "Underweight"
    ELSE IF b < 2500 THEN "Normal weight"
    ELSE IF b < 3000 THEN "Overweight"
    ELSE "Obesity"

\* PatientValid with the upper age limit taken as inclusive.
PatientValid_le(d, none) ==
    /\ Required \subseteq DOMAIN d
    /\ none \cap Required = {}
    /\ d.age > AgeGt /\ d.age <= AgeLt
    /\ d.gender \in Genders
    /\ d.height > 0
    /\ d.weight > 0

\* Whether Patient(**d) validates; none holds the keys of d whose value is None.
\* name and city are plain str fields: every string passes, the empty one too.
PatientValid(d, none) ==
    /\ Required \subseteq DOMAIN d
    /\ none \cap Required = {}
    /\ d.age > AgeGt /\ d.age < AgeLt
    /\ d.gender \in Genders
    /\ d.height > 0
    /\ d.weight > 0

\* model_dump without the exclude: the id is dumped with the fields.
model_dump_with_id(d) ==
    [id |-> d.id, name |-> d.name, city |-> d.city, age |-> d.age, gender |-> d.gender,
     height |-> d.height, weight |-> d.weight,
     bmi |-> bmi(d.height, d.weight),
     verdict |-> verdict(bmi(d.height, d.weight))]

\* patient.model_dump(exclude={'id'}) of the Patient built from d: the six
\* stored fields and the two computed fields; other keys of d are ignored.
model_dump(d) ==
    [name |-> d.name, city |-> d.city, age |-> d.age, gender |-> d.gender,
     height |-> d.height, weight |-> d.weight,
     bmi |-> bmi(d.height, d.weight),
     verdict |-> verdict(bmi(d.height, d.weight))]

(***************************************************************************)
(* Partial update payload: class Patientupdate                             *)
(* Each field is [set, null, v]: unset, explicitly null (None), or v.      *)
(***************************************************************************)
UpdateFields == {"name", "city", "age", "gender", "height", "weight"}

Unset(dflt) == [set |-> FALSE, null |-> FALSE, v |-> dflt]
Null(dflt) == [set |-> TRUE, null |-> TRUE, v |-> dflt]
Given(x) == [set |-> TRUE, null |-> FALSE, v |-> x]

Present(u, k) == k \in DOMAIN u /\ u[k].set /\ ~u[k].null

\* Whether the request body validates as a Patientupdate (None passes every
\* Optional field; a present age, gender, height, weight meets its constraint).
PatientupdateValid(u) ==
    /\ Present(u, "age") => (u.age.v > AgeGt /\ u.age.v < AgeLt)
    /\ Present(u, "gender") => u.gender.v \in Genders
    /\ Present(u, "height") => u.height.v > 0
    /\ Present(u, "weight") => u.weight.v > 0

\* The keys of patient_update.model_dump(exclude_unset=True): every field the
\* body set, the ones it set to null included.
UpdatedKeys(u) == {k \in DOMAIN u : u[k].set}

\* Merged with the loop over the payload left out.
Merged_keep(existing, u, patient_id) ==
    [k \in DOMAIN existing \cup {"id"} |-> IF k = "id" THEN patient_id ELSE existing[k]]

\* existing_patient_info after the loop of update_patient and the id added.
Merged(existing, u, patient_id) ==
    LET ks == DOMAIN existing \cup {k \in DOMAIN u : Present(u, k)} \cup {"id"}
    IN  [k \in ks |->
            IF k = "id" THEN patient_id
            ELSE IF Present(u, k) THEN u[k].v
            ELSE existing[k]]

MergedNone(u) == {k \in UpdatedKeys(u) : u[k].null}

(***************************************************************************)
(* Record Store Adapter                                                    *)
(***************************************************************************)
\* FileNotFoundError and JSONDecodeError (an empty or garbled file) give {}.
load_data(f) == IF f.state = "json" THEN f.content ELSE <<>>

\* save_data whose text never reaches the file: it stays as open left it.
save_data_unflushed(d) == [state |-> "empty", content |-> <<>>]

\* The file once save_data(d) has returned with no other writer involved.
save_data(d) == [state |-> "json", content |-> d]

(***************************************************************************)
(* Handlers, as functions of the loaded collection and the request.        *)
(* Result: status, body, data (the collection to save), save (whether      *)
(* save_data is called).                                                   *)
(***************************************************************************)
view(d) == [status |-> 200, body |-> d, data |-> d, save |-> FALSE]

view_patient(d, patient_id) ==
    IF patient_id \in Keys(d)
    THEN [status |-> 200, body |-> Get(d, patient_id), data |-> d, save |-> FALSE]
    ELSE [status |-> 404, body |-> "Patient not found", data |-> d, save |-> FALSE]

\* create_patient without the check for an existing id.
create_patient_overwrite(d, patient) ==
    LET d2 == Put(d, patient.id, model_dump(patient))
    IN  [status |-> 201, body |-> Get(d2, patient.id), data |-> d2, save |-> TRUE]

create_patient(d, patient) ==
    IF patient.id \in Keys(d)
    THEN [status |-> 400, body |-> "Patient with this ID already exists",
          data |-> d, save |-> FALSE]
    ELSE LET d2 == Put(d, patient.id, model_dump(patient))
         IN  [status |-> 201, body |-> Get(d2, patient.id), data |-> d2, save |-> TRUE]

\* update_patient storing the merged fields beside the bmi and verdict the
\* record already had, with no Patient built to recompute them.
update_patient_stale(d, patient_id, u) ==
    IF patient_id \notin Keys(d)
    THEN [status |-> 404, body |-> "Patient not found", data |-> d, save |-> FALSE]
    ELSE LET existing == Get(d, patient_id)
             merged == Merged(existing, u, patient_id)
         IN  IF ~PatientValid(merged, MergedNone(u))
             THEN [status |-> 500, body |-> "Internal Server Error",
                   data |-> d, save |-> FALSE]
             ELSE LET updated == [k \in DOMAIN existing |-> merged[k]]
                  IN  [status |-> 200, body |-> updated,
                       data |-> Put(d, patient_id, updated), save |-> TRUE]

\* Patient(**existing_patient_info) raises pydantic's ValidationError inside
\* the handler; nothing catches it, so the framework answers 500.
update_patient(d, patient_id, u) ==
    IF patient_id \notin Keys(d)
    THEN [status |-> 404, body |-> "Patient not found", data |-> d, save |-> FALSE]
    ELSE LET merged == Merged(Get(d, patient_id), u, patient_id)
         IN  IF ~PatientValid(merged, MergedNone(u))
             THEN [status |-> 500, body |-> "Internal Server Error",
                   data |-> d, save |-> FALSE]
             ELSE LET updated == model_dump(merged)
                  IN  [status |-> 200, body |-> updated,
                       data |-> Put(d, patient_id, updated), save |-> TRUE]

\* delete_patient removing every entry instead of the one asked for.
delete_patient_wipe(d, patient_id) ==
    IF patient_id \notin Keys(d)
    THEN [status |-> 404, body |-> "Patient not found", data |-> d, save |-> FALSE]
    ELSE [status |-> 200, body |-> "Patient deleted successfully",
          data |-> <<>>, save |-> TRUE]

delete_patient(d, patient_id) ==
    IF patient_id \notin Keys(d)
    THEN [status |-> 404, body |-> "Patient not found", data |-> d, save |-> FALSE]
    ELSE [status |-> 200, body |-> "Patient deleted successfully",
          data |-> Del(d, patient_id), save |-> TRUE]

(***************************************************************************)
(* Query/Sort Engine                                                       *)
(***************************************************************************)
valid_fields == {"height", "weight", "bmi"}

\* The sort key: x.get(sort_by, 0).
SortKey(x, sort_by) == IF sort_by \in DOMAIN x THEN x[sort_by] ELSE 0

\* s with x put behind every element whose key is at most x's (s is ordered).
InsertBehind(s, x, sort_by) ==
    LET p == Cardinality({i \in DOMAIN s : SortKey(s[i], sort_by) <= SortKey(x, sort_by)})
    IN  SubSeq(s, 1, p) \o <<x>> \o SubSeq(s, p + 1, Len(s))

RECURSIVE StableSort(_, _)
\* A stable ascending sort of s by the key, as list.sort is.
StableSort(s, sort_by) ==
    IF s = <<>> THEN <<>>
    ELSE InsertBehind(StableSort(SubSeq(s, 1, Len(s) - 1), sort_by), s[Len(s)], sort_by)

Reverse(s) == [i \in DOMAIN s |-> s[Len(s) + 1 - i]]

\* sorted with the reverse flag ignored.
sorted_ascending(s, sort_by, reverse) == StableSort(s, sort_by)

\* sorted(values, key=..., reverse=...): with reverse the list is reversed,
\* sorted ascending and reversed again, which keeps equal keys in their order.
sorted(s, sort_by, reverse) ==
    IF reverse THEN Reverse(StableSort(Reverse(s), sort_by))
    ELSE StableSort(s, sort_by)

sort_patients(f, sort_by, order) ==
    IF sort_by \notin valid_fields
    THEN [status |-> 400, body |-> "Invalid field select from height, weight, bmi",
          data |-> <<>>, save |-> FALSE]
    ELSE IF order \notin {"asc", "desc"}
    THEN [status |-> 400, body |-> "Order must be either asc or desc",
          data |-> <<>>, save |-> FALSE]
    ELSE LET d == load_data(f)
         IN  [status |-> 200, body |-> sorted(Values(d), sort_by, order = "desc"),
              data |-> d, save |-> FALSE]

(***************************************************************************)
(* Request validation done by the framework before a handler runs: a body  *)
(* that fails its model is answered 422 and the handler is not called.     *)
(***************************************************************************)
Unprocessable == [status |-> 422, body |-> "validation error", data |-> <<>>, save |-> FALSE]

post_create(d, body) ==
    IF PatientValid(body, {}) THEN create_patient(d, body) ELSE Unprocessable

put_update(d, patient_id, body) ==
    IF PatientupdateValid(body) THEN update_patient(d, patient_id, body) ELSE Unprocessable

(***************************************************************************)
(* One request served at a time: each action is a whole handler, from its  *)
(* load_data to its save_data and response.                                *)
(***************************************************************************)
NoRequest == [op |-> "none", req |-> "", status |-> 0, body |-> "", saved |-> FALSE, prev |-> [state |-> "absent", content |-> <<>>]]

EmptyFile == [state |-> "absent", content |-> <<>>]

\* What a worker thread holds while it serves no request.
NoWork == [op |-> "none", id |-> "", body |-> ""]
NoResult == [res |-> Unprocessable, before |-> <<>>]
NoLoad == [got |-> <<>>, saves |-> {}]

WorkersIdle ==
    UNCHANGED <<pc, req, data, out, obs, hist, started, overlapped>>

\* A request is served once the previous response has been delivered.
Serve(op, request, r) ==
    /\ resp.op = "none"
    /\ resp' = [op |-> op, req |-> request, status |-> r.status, body |-> r.body,
                saved |-> r.save, prev |-> file]
    /\ file' = IF r.save THEN save_data(r.data) ELSE file
    /\ WorkersIdle

\* The client takes the response.
Deliver ==
    /\ resp.op # "none"
    /\ resp' = NoRequest
    /\ UNCHANGED file
    /\ WorkersIdle

View == Serve("view", "", view(load_data(file)))

ViewPatient(patient_id) ==
    Serve("view_patient", patient_id, view_patient(load_data(file), patient_id))

SortPatients(sort_by, order) ==
    Serve("sort", <<sort_by, order>>, sort_patients(file, sort_by, order))

CreatePatient(body) ==
    Serve("create", body, post_create(load_data(file), body))

UpdatePatient(patient_id, body) ==
    Serve("update", [id |-> patient_id, body |-> body],
          put_update(load_data(file), patient_id, body))

DeletePatient(patient_id) ==
    Serve("delete", patient_id, delete_patient(load_data(file), patient_id))

(***************************************************************************)
(* Requests of the sequential specification                                *)
(***************************************************************************)
CreateBodies ==
    [id : Ids, name : {"Asha", "Ravi"}, city : {"Pune"}, age : {0, 30, 119},
     gender : {"male", "other"}, height : {150, 200}, weight : {50, 100}]

FieldChoices(vals, dflt) == {Unset(dflt), Null(dflt)} \cup {Given(x) : x \in vals}

NumSet(u) == Cardinality(UpdatedKeys(u))

UpdateBodies ==
    [name : FieldChoices({"Asha", "Ravi"}, ""),
     city : FieldChoices({"Pune"}, ""),
     age : FieldChoices({0, 30, 119}, 0),
     gender : FieldChoices({"male", "other"}, ""),
     height : FieldChoices({150, 200}, 0),
     weight : FieldChoices({50, 100}, 0)]

SortFields == valid_fields \cup {"age"}
SortOrders == {"asc", "desc", "up"}

Init ==
    /\ file = EmptyFile
    /\ resp = NoRequest
    /\ pc = [t \in Threads |-> "idle"]
    /\ req = [t \in Threads |-> NoWork]
    /\ data = [t \in Threads |-> <<>>]
    /\ out = [t \in Threads |-> NoResult]
    /\ obs = [t \in Threads |-> NoLoad]
    /\ hist = <<>>
    /\ started = 0
    /\ overlapped = FALSE

Next ==
    \/ /\ resp.op = "none"
       /\ View
    \/ /\ resp.op = "none"
       /\ \E patient_id \in Ids : ViewPatient(patient_id)
    \/ /\ resp.op = "none"
       /\ \E sort_by \in SortFields, order \in SortOrders : SortPatients(sort_by, order)
    \/ /\ resp.op = "none"
       /\ \E body \in CreateBodies : CreatePatient(body)
    \/ /\ resp.op = "none"
       /\ \E patient_id \in Ids, body \in UpdateBodies :
              NumSet(body) <= MaxFieldsSet /\ UpdatePatient(patient_id, body)
    \/ /\ resp.op = "none"
       /\ \E patient_id \in Ids : DeletePatient(patient_id)
    \/ Deliver

Spec == Init /\ [][Next]_vars

(***************************************************************************)
(* Properties of the sequential specification Spec                         *)
(***************************************************************************)
\* The collection before and after the request resp answers.
Before == load_data(resp.prev)
After == load_data(file)

\* b (hundredths) is the hundredth nearest to weight / height^2 (metres).
NearestHundredth(b, height, weight) ==
    LET exact == weight * 10000 * 100
        got == b * height * height
    IN  2 * (IF exact >= got THEN exact - got ELSE got - exact) <= height * height

\* The threshold table of the verdict, on a bmi in hundredths.
VerdictTable(b, v) ==
    /\ (b < 1850) => v = "Underweight"
    /\ (b >= 1850 /\ b < 2500) => v = "Normal weight"
    /\ (b >= 2500 /\ b < 3000) => v = "Overweight"
    /\ (b >= 3000) => v = "Obesity"

Fresh(rec) ==
    /\ NearestHundredth(rec.bmi, rec.height, rec.weight)
    /\ VerdictTable(rec.bmi, rec.verdict)

\* Every entry of d other than id is in e, unchanged.
OthersKept(d, e, id) ==
    \A j \in Keys(d) \ {id} : j \in Keys(e) /\ Get(e, j) = Get(d, j)

\* C1: a create whose body validates and whose id is already a key of the
\* store is answered 400, calls no save_data and leaves the file as it was.
C1_ConflictLeavesStore ==
    (resp.op = "create" /\ PatientValid(resp.req, {}) /\ resp.req.id \in Keys(Before))
        => (resp.status = 400 /\ ~resp.saved /\ file = resp.prev)

C1_Witness ==
    /\ resp.op = "create"
    /\ PatientValid(resp.req, {})
    /\ resp.req.id \in Keys(Before)
    /\ resp.status = 400
    /\ Get(After, resp.req.id).name # resp.req.name

\* C3: a successful update stores, under its id, a record in which every
\* field present in the payload has the payload's value and every other
\* mutable field has its previous value, with bmi and verdict those of the
\* merged height and weight; every other entry is unchanged.
C3_UpdateMerges ==
    (resp.op = "update" /\ resp.status = 200)
        => LET id == resp.req.id
               u == resp.req.body
           IN  /\ id \in Keys(Before) /\ Keys(After) = Keys(Before)
               /\ \A k \in UpdateFields :
                      Get(After, id)[k] = IF Present(u, k) THEN u[k].v ELSE Get(Before, id)[k]
               /\ Fresh(Get(After, id))
               /\ OthersKept(Before, After, id)

\* An update of the weight alone, to another weight, that changes the verdict.
C3_Witness ==
    /\ resp.op = "update" /\ resp.status = 200
    /\ UpdatedKeys(resp.req.body) = {"weight"}
    /\ Len(Before) = 2
    /\ Get(After, resp.req.id).weight # Get(Before, resp.req.id).weight
    /\ Get(After, resp.req.id).verdict # Get(Before, resp.req.id).verdict
    /\ Get(After, resp.req.id).height = Get(Before, resp.req.id).height

\* C4: a delete of an id that is no key of the store is answered 404, calls
\* no save_data and leaves the file as it was; a delete of a key is answered
\* 200, removes that entry alone, and a following read-all does not show it.
C4_Delete ==
    (resp.op = "delete")
        => IF resp.req \notin Keys(Before)
           THEN resp.status = 404 /\ ~resp.saved /\ file = resp.prev
           ELSE /\ resp.status = 200
                /\ Keys(After) = Keys(Before) \ {resp.req}
                /\ OthersKept(Before, After, resp.req)
                /\ resp.req \notin Keys(view(load_data(file)).body)

C4_Witness ==
    /\ resp.op = "delete" /\ resp.status = 200
    /\ Len(Before) = 2 /\ Len(After) = 1

\* C5: after a successful create, reading the created id returns the six
\* submitted fields, and the value stored under the id holds no id key.
C5_CreateRoundTrip ==
    (resp.op = "create" /\ resp.status = 201)
        => LET r == view_patient(load_data(file), resp.req.id)
           IN  /\ resp.req.id \notin Keys(Before)
               /\ r.status = 200
               /\ \A k \in UpdateFields : r.body[k] = resp.req[k]
               /\ "id" \notin DOMAIN Get(After, resp.req.id)

C5_Witness ==
    /\ resp.op = "create" /\ resp.status = 201
    /\ Len(Before) = 1 /\ Len(After) = 2

\* C6: an update of a stored id whose merged record fails the Record Model
\* is answered 400 and leaves the file as it was.
C6_MergedInvalidIs400 ==
    (/\ resp.op = "update"
     /\ PatientupdateValid(resp.req.body)
     /\ resp.req.id \in Keys(Before)
     /\ ~PatientValid(Merged(Get(Before, resp.req.id), resp.req.body, resp.req.id),
                      MergedNone(resp.req.body)))
        => (resp.status = 400 /\ file = resp.prev)

(***************************************************************************)
(* The Record Model alone: create requests over every combination of valid *)
(* and invalid field values.                                               *)
(***************************************************************************)
RawBodies ==
    [id : {"P1"}, name : {"", "Asha"}, city : {"", "Pune"}, age : {0, 1, 119, 120},
     gender : {"male", "female", "others", "other"}, height : {0, 150, 200},
     weight : {0, 50, 74, 100, 120}]

NextRecord ==
    \/ /\ resp.op = "none"
       /\ \E body \in RawBodies : CreatePatient(body)
    \/ Deliver

SpecRecord == Init /\ [][NextRecord]_vars

\* The Record Model as the specification words it.
AcceptedAsClaimed(b) ==
    /\ b.name # "" /\ b.city # ""
    /\ b.age \in 1..119
    /\ b.gender \in {"male", "female", "other"}
    /\ b.height > 0 /\ b.weight > 0

\* The Record Model as amended: any name and city, gender "others".
AcceptedAsAmended(b) ==
    /\ b.age \in 1..119
    /\ b.gender \in {"male", "female", "others"}
    /\ b.height > 0 /\ b.weight > 0

\* A validation error: the body was refused and nothing was stored.
Refused == resp.status = 422 /\ ~resp.saved /\ file = resp.prev

\* C7 as claimed: a create body is accepted exactly when name and city are
\* non-empty, age is in 1..119, gender is one of male, female, other and
\* height and weight are positive; any other body is refused.
C7_AcceptsAsClaimed ==
    (resp.op = "create")
        => IF AcceptedAsClaimed(resp.req) THEN resp.status \in {201, 400} ELSE Refused

\* C7 amended: a create body is accepted exactly when age is in 1..119,
\* gender is one of male, female, others and height and weight are positive
\* (name and city may be any strings, the empty string included); any other
\* body is refused with a validation error and stores nothing.
C7_AcceptsAsAmended ==
    (resp.op = "create")
        => IF AcceptedAsAmended(resp.req) THEN resp.status \in {201, 400} ELSE Refused

\* A body with an empty name and city and gender "others" is stored.
C7_Witness ==
    /\ resp.op = "create" /\ resp.status = 201
    /\ resp.req.name = "" /\ resp.req.city = "" /\ resp.req.gender = "others"
    /\ resp.req.age = 119
    /\ Keys(After) = {"P1"}

(***************************************************************************)
(* The Query/Sort Engine alone, over stores written by other programs too: *)
(* records may lack the sort fields.                                       *)
(***************************************************************************)
SortRecs ==
    {[name |-> n] : n \in {"a", "b"}}
    \cup {[name |-> n, bmi |-> b] : n \in {"a", "b"}, b \in {18, 22, 31}}
    \cup {[name |-> "a", weight |-> 50]}
    \cup {[name |-> "a", weight |-> 50, bmi |-> b] : b \in {18, 22, 31}}

\* The store whose values are v, under the ids P1, P2, ...
SortStore(v) == [i \in DOMAIN v |-> [id |-> "P" \o ToString(i), rec |-> v[i]]]

InitSort ==
    /\ \E n \in 0..MaxSortLen : \E v \in [1..n -> SortRecs] : file = save_data(SortStore(v))
    /\ resp = NoRequest
    /\ pc = [t \in Threads |-> "idle"]
    /\ req = [t \in Threads |-> NoWork]
    /\ data = [t \in Threads |-> <<>>]
    /\ out = [t \in Threads |-> NoResult]
    /\ obs = [t \in Threads |-> NoLoad]
    /\ hist = <<>>
    /\ started = 0
    /\ overlapped = FALSE

NextSort ==
    \/ /\ resp.op = "none"
       /\ \E sort_by \in SortFields, order \in SortOrders : SortPatients(sort_by, order)
    \/ Deliver

SpecSort == InitSort /\ [][NextSort]_vars

\* s and t hold the same records, each as often.
SameRecords(s, t) ==
    /\ Len(s) = Len(t)
    /\ \A i \in DOMAIN s :
           Cardinality({j \in DOMAIN s : s[j] = s[i]}) = Cardinality({j \in DOMAIN t : t[j] = s[i]})

\* The value a record is ordered by: its field, 0 when it has none.
OrderedBy(x, field) == IF field \in DOMAIN x THEN x[field] ELSE 0

\* C8: for a field of height, weight, bmi and a direction of asc, desc the
\* response holds the store's values, each as often, in non-decreasing (asc)
\* or non-increasing (desc) order of the field, a record without the field
\* counting as 0; any other field, and any other direction, is answered 400;
\* no sort changes the store.
C8_Sort ==
    (resp.op = "sort")
        => LET field == resp.req[1]
               direction == resp.req[2]
           IN  /\ file = resp.prev /\ ~resp.saved
               /\ IF field \notin {"height", "weight", "bmi"} \/ direction \notin {"asc", "desc"}
                  THEN resp.status = 400
                  ELSE /\ resp.status = 200
                       /\ SameRecords(resp.body, Values(Before))
                       /\ \A i, j \in DOMAIN resp.body :
                              i < j => IF direction = "asc"
                                       THEN OrderedBy(resp.body[i], field) <= OrderedBy(resp.body[j], field)
                                       ELSE OrderedBy(resp.body[i], field) >= OrderedBy(resp.body[j], field)

\* bmi 18, 22, 31 sorted desc give 31, 22, 18; and a store with a record
\* that has no bmi, sorted by bmi.
C8_Witness ==
    /\ resp.op = "sort" /\ resp.status = 200
    /\ resp.req = <<"bmi", "desc">>
    /\ Len(Before) = 3
    /\ [i \in 1..3 |-> OrderedBy(Values(Before)[i], "bmi")] = <<18, 22, 31>>
    /\ [i \in 1..3 |-> OrderedBy(resp.body[i], "bmi")] = <<31, 22, 18>>

C8_WitnessMissing ==
    /\ resp.op = "sort" /\ resp.status = 200
    /\ resp.req = <<"bmi", "asc">>
    /\ Len(Before) = 3
    /\ "bmi" \notin DOMAIN Values(Before)[3]
    /\ "bmi" \notin DOMAIN resp.body[1]
    /\ "bmi" \in DOMAIN resp.body[2]

(***************************************************************************)
(* Concurrent requests.  The handlers are plain def functions, which the   *)
(* framework runs on worker threads: two requests may be served at once.   *)
(* A handler touches patients.json three times: load_data reads it, the    *)
(* open(..., 'w') of save_data truncates it, and the json.dump and close   *)
(* of save_data write the text.  Each of these is one step; the in-memory  *)
(* work between load_data and save_data is part of the step that opens.    *)
(***************************************************************************)
ConcBodies ==
    {[id |-> i, name |-> "Asha", city |-> "Pune", age |-> 30, gender |-> "male",
      height |-> hw[1], weight |-> hw[2]] : i \in Ids, hw \in {<<200, 74>>, <<200, 50>>}}

ConcUpdates ==
    {[name |-> Unset(""), city |-> Unset(""), age |-> Unset(0), gender |-> Unset(""),
      height |-> Unset(0), weight |-> Given(w)] : w \in {100, 120}}
    \cup
    {[name |-> Unset(""), city |-> Unset(""), age |-> Unset(0), gender |-> Unset(""),
      height |-> Given(150), weight |-> Unset(0)]}

\* The handler of request rq run on the loaded collection d.
Result(rq, d) ==
    CASE rq.op = "create" -> post_create(d, rq.body)
      [] rq.op = "update" -> put_update(d, rq.id, rq.body)
      [] rq.op = "delete" -> delete_patient(d, rq.id)
      [] OTHER -> view(d)

\* The saves in progress: for each thread between the open and the close of
\* save_data, the collection the file held before the open and the one
\* being written.
SavesRunning ==
    {[before |-> out[u].before, after |-> out[u].res.data] : u \in {x \in Threads : pc[x] = "writing"}}

\* Thread t takes request rq and runs the handler up to its load_data.
Accept(t, rq) ==
    /\ started < MaxRequests
    /\ started' = started + 1
    /\ overlapped' = (overlapped \/ \E u \in Threads : pc[u] # "idle")
    /\ pc' = [pc EXCEPT ![t] = "loaded"]
    /\ req' = [req EXCEPT ![t] = rq]
    /\ data' = [data EXCEPT ![t] = load_data(file)]
    /\ obs' = [obs EXCEPT ![t] = [got |-> load_data(file), saves |-> SavesRunning]]
    /\ UNCHANGED <<file, resp, out, hist>>

AcceptView(t) ==
    /\ pc[t] = "idle"
    /\ Accept(t, [op |-> "view", id |-> "", body |-> ""])

AcceptCreate(t, body) ==
    /\ pc[t] = "idle"
    /\ Accept(t, [op |-> "create", id |-> body.id, body |-> body])

AcceptUpdate(t, patient_id, body) ==
    /\ pc[t] = "idle"
    /\ Accept(t, [op |-> "update", id |-> patient_id, body |-> body])

AcceptDelete(t, patient_id) ==
    /\ pc[t] = "idle"
    /\ Accept(t, [op |-> "delete", id |-> patient_id, body |-> ""])

\* The response of thread t goes out and the handler's locals are gone.
Respond(t, status) ==
    /\ hist' = Append(hist, [req |-> req[t], status |-> status])
    /\ pc' = [pc EXCEPT ![t] = "idle"]
    /\ req' = [req EXCEPT ![t] = NoWork]
    /\ data' = [data EXCEPT ![t] = <<>>]
    /\ out' = [out EXCEPT ![t] = NoResult]
    /\ obs' = [obs EXCEPT ![t] = NoLoad]

\* patients.json right after open('patients.json', 'w').
Truncated == [state |-> "empty", content |-> <<>>]

\* Thread t runs its handler from after load_data: either it responds without
\* saving, or it enters save_data and opens the file, which truncates it.
Handle(t) ==
    /\ pc[t] = "loaded"
    /\ LET r == Result(req[t], data[t])
       IN  IF r.save
           THEN /\ out' = [out EXCEPT ![t] = [res |-> r, before |-> load_data(file)]]
                /\ file' = Truncated
                /\ pc' = [pc EXCEPT ![t] = "writing"]
                /\ UNCHANGED <<hist, req, data, obs>>
           ELSE /\ Respond(t, r.status)
                /\ UNCHANGED file
    /\ UNCHANGED <<resp, started, overlapped>>

\* What the file may hold once a writer has written d from offset 0 and
\* closed: d's text when the file was still empty; when another writer has
\* written since this one opened, d's text followed by whatever of the other
\* text is longer than it, which json cannot decode.
WriteOutcomes(f, d) ==
    IF f.state = "empty"
    THEN {save_data(d)}
    ELSE {save_data(d), [state |-> "garbage", content |-> <<>>]}

\* Thread t finishes save_data (json.dump, close) and responds.
Write(t) ==
    /\ pc[t] = "writing"
    /\ file' \in WriteOutcomes(file, out[t].res.data)
    /\ Respond(t, out[t].res.status)
    /\ UNCHANGED <<resp, started, overlapped>>

NextConc ==
    \/ \E t \in Threads : AcceptView(t)
    \/ \E t \in Threads, body \in ConcBodies : AcceptCreate(t, body)
    \/ \E t \in Threads, patient_id \in Ids, body \in ConcUpdates : AcceptUpdate(t, patient_id, body)
    \/ \E t \in Threads, patient_id \in Ids : AcceptDelete(t, patient_id)
    \/ \E t \in Threads : Handle(t)
    \/ \E t \in Threads : Write(t)

SpecConc == Init /\ [][NextConc]_vars

(***************************************************************************)
(* Properties of the concurrent specification SpecConc                     *)
(***************************************************************************)
AllIdle == \A t \in Threads : pc[t] = "idle"

Created(h, i, x) == h[i].req.op = "create" /\ h[i].req.id = x /\ h[i].status = 201
Updated(h, i, x) == h[i].req.op = "update" /\ h[i].req.id = x /\ h[i].status = 200
Deleted(h, i, x) == h[i].req.op = "delete" /\ h[i].req.id = x /\ h[i].status = 200

\* The ids a successful create of h made and no later successful delete removed.
LiveIds(h) ==
    {x \in Ids : \E i \in DOMAIN h :
        Created(h, i, x) /\ \A j \in DOMAIN h : j > i => ~Deleted(h, j, x)}

\* The responses of h that gave field k of id x a value: successful creates
\* of x, and successful updates of x whose payload holds k.
WritesTo(h, x, k) ==
    {i \in DOMAIN h : Created(h, i, x) \/ (Updated(h, i, x) /\ Present(h[i].req.body, k))}

\* The value the last of them gave it.
LastWritten(h, x, k) ==
    LET i == CHOOSE m \in WritesTo(h, x, k) : \A n \in WritesTo(h, x, k) : n <= m
    IN  IF h[i].req.op = "create" THEN h[i].req.body[k] ELSE h[i].req.body[k].v

\* C2: every record of the file has the bmi of its own height and weight,
\* rounded to the hundredth, and the verdict the threshold table gives it.
C2_NeverStale ==
    \A i \in DOMAIN file.content : Fresh(file.content[i].rec)

\* A record updated by a request that overlapped another, now Overweight at
\* exactly 25.0.
C2_Witness ==
    /\ overlapped /\ AllIdle
    /\ \E i \in DOMAIN hist : hist[i].req.op = "update" /\ hist[i].status = 200
    /\ \E i \in DOMAIN file.content :
           file.content[i].rec.bmi = 2500 /\ file.content[i].rec.verdict = "Overweight"

\* C9: a load_data that runs while a save_data is between its open and its
\* close reads the whole collection from before that save or the whole
\* collection that save writes.
C9_AtomicSave ==
    \A t \in Threads :
        \A s \in obs[t].saves : obs[t].got = s.before \/ obs[t].got = s.after

\* C10, the sequential half: when no request was accepted while another was
\* being served, the store holds the effects of all of them: its keys are
\* the ids created and not deleted since, and each field of each record has
\* the value the last successful create or update gave it.
C10_SequentialEffects ==
    (~overlapped /\ AllIdle)
        => /\ Keys(load_data(file)) = LiveIds(hist)
           /\ \A x \in LiveIds(hist), k \in UpdateFields :
                  Get(load_data(file), x)[k] = LastWritten(hist, x, k)

\* C10, the racing half: two creates of distinct ids were both answered 201,
\* nothing was ever deleted, and the store holds only one of the two.
C10_LostUpdate ==
    /\ AllIdle
    /\ Len(hist) = 2
    /\ Created(hist, 1, hist[1].req.id) /\ Created(hist, 2, hist[2].req.id)
    /\ hist[1].req.id # hist[2].req.id
    /\ file.state = "json"
    /\ Cardinality(Keys(load_data(file))) = 1

====
